---- MODULE Spec2Model ----
(***************************************************************************)
(* Model of the CI automation scripts of ai-content-service:               *)
(*   scripts/huggingface_ai_helper.py        the inference client          *)
(*   scripts/ai_code_review.py               the code-review pipeline      *)
(*   scripts/ai_documentation.py             the documentation pipeline    *)
(*   scripts/generate_calculation_examples.py the example-report pipeline  *)
(*                                                                         *)
(* Numbers: Python floats are modelled as exact decimals held in integers  *)
(* (the scale is part of each name or comment).  Where round() meets an    *)
(* exact decimal tie the direction is decided by the sign of the binary    *)
(* representation error of the float, which is recorded beside the value.  *)
(* Text: a string is a sequence of code points drawn from Chars.           *)
(***************************************************************************)
EXTENDS Integers, Sequences, FiniteSets, TLC

VARIABLES
    building_params,   \* SpecCalc: the record handed to simulate_calculation_results
    results,           \* SpecCalc: <<>> before the call, <<result record>> after
    q_kwargs,          \* SpecQuery: the caller's overrides (**kwargs)
    q_outcome,         \* SpecQuery: what the HTTP POST does (exception class, body)
    q_return,          \* SpecQuery: <<>> before the call, <<outcome of query>> after
    wrapper,           \* SpecWrap: the convenience wrapper called, "none" elsewhere
    w_return,          \* SpecWrap: <<>> before the call, <<outcome of the wrapper>> after
    d_filename,        \* SpecDocType: the path handed to determine_doc_type
    d_content,         \* SpecDocType: the text handed to determine_doc_type
    d_type,            \* SpecDocType: <<>> before the call, <<returned type>> after
    review_text,       \* SpecClassify: the text the inference service generated
    review_record,     \* SpecClassify: <<>> or <<record of perform_ai_code_review>>
    review_op,         \* SpecClassify: how review_text was last changed
    script,            \* Spec: which script runs: "review", "docs" or "examples"
    pc,                \* Spec: the position in main
    exit_code,         \* Spec: -1 while running, then the process's exit status
    token,             \* Spec: os.getenv("HF_TOKEN"): "unset", "empty" or "set"
    github_actions,    \* Spec: whether os.getenv("GITHUB_ACTIONS") is set
    tree,              \* Spec: the files below the working directory, in walk order
    docs_dir_exists,   \* Spec: whether the directory docs/ exists
    python_files,      \* Spec: main's python_files
    idx,               \* Spec: how many items the for loop has taken
    all_reviews,       \* Spec: main's all_reviews (review script)
    generated_files,   \* Spec: main's generated_files (documentation script)
    generated_reports, \* Spec: main's generated_reports (example script)
    writes,            \* Spec: every file written so far, in order
    net_failed,        \* Spec: the files whose query printed its request-failed line
    walks,             \* Spec: number of os.walk traversals made
    reads,             \* Spec: number of source files opened for reading
    posts              \* Spec: number of HTTP POSTs made

calcVars  == <<building_params, results>>
queryVars == <<q_kwargs, q_outcome, q_return, wrapper, w_return>>
clsVars   == <<review_text, review_record, review_op>>
envVars   == <<script, token, github_actions, tree>>
runVars   == <<pc, exit_code, docs_dir_exists, python_files, idx, all_reviews,
               generated_files, generated_reports, writes, net_failed, walks, reads,
               posts>>
docTypeVars == <<d_filename, d_content, d_type>>
pureVars  == <<calcVars, queryVars, clsVars, docTypeVars>>
vars == <<calcVars, queryVars, clsVars, docTypeVars, envVars, runVars>>

\* a group of variables that a specification does not use stays at these values
CalcIdle  == building_params = <<>> /\ results = <<>>
QueryIdle ==
    /\ q_kwargs = <<>> /\ q_outcome = <<>> /\ q_return = <<>>
    /\ wrapper = "none" /\ w_return = <<>>
DocTypeIdle ==
    d_filename = [dir |-> <<>>, name |-> <<>>] /\ d_content = <<>> /\ d_type = <<>>
ClsIdle   == review_text = <<>> /\ review_record = <<>> /\ review_op = "idle"
RunIdle ==
    /\ script = "none" /\ pc = "idle" /\ exit_code = -1 /\ token = "unset"
    /\ github_actions = FALSE /\ tree = <<>> /\ docs_dir_exists = FALSE
    /\ python_files = <<>> /\ idx = 0 /\ all_reviews = <<>> /\ generated_files = <<>>
    /\ generated_reports = <<>> /\ writes = <<>> /\ net_failed = {}
    /\ walks = 0 /\ reads = 0 /\ posts = 0

(***************************************************************************)
(* generate_calculation_examples.py : simulate_calculation_results         *)
(***************************************************************************)

\* a chain that names D and sends every unknown category to 1.0
HeightFactorUnknownAsA(terrain) ==
    IF terrain = "B" THEN 12
    ELSE IF terrain = "C" THEN 14
    ELSE IF terrain = "D" THEN 16
    ELSE 10
\* the terrain -> height factor chain of if/elif/else, in tenths (1.4 -> 14)
height_factor_E1(terrain) ==
    IF terrain = "A" THEN 10
    ELSE IF terrain = "B" THEN 12
    ELSE IF terrain = "C" THEN 14
    ELSE 16

\* sign of (float product 0.5625 * height_factor * 1.3) - (exact decimal product):
\* 0.5625*1.0*1.3 and 0.5625*1.6*1.3 land above the decimal, 0.5625*1.2*1.3 and
\* 0.5625*1.4*1.3 below it (IEEE-754 double, round-to-nearest-even).
FloatErrSign(hfE1) ==
    IF hfE1 = 12 \/ hfE1 = 14 THEN -1 ELSE 1

\* 0.5 * 1.25 * (30 ** 2) / 1000 in ten-thousandths: 0.5625 -> 5625 (exact in binary)
basic_wind_pressure_E4 == (5 * 125 * (30 * 30) * 10) \div 1000

\* shape_factor = 1.3, in tenths
shape_factor_E1 == 13

\* Python round(x, n) of the float whose exact decimal is x / 10^k, to a multiple
\* of d / 10^k; err is the sign of the float's representation error, 0 when the
\* float is exact (then a tie goes to the even neighbour).
RoundDiv(x, d, err) ==
    LET q == x \div d
        r == x % d
    IN  IF 2 * r < d THEN q
        ELSE IF 2 * r > d THEN q + 1
        ELSE IF err < 0 THEN q
        ELSE IF err > 0 THEN q + 1
        ELSE IF q % 2 = 0 THEN q ELSE q + 1

\* wind_pressure before rounding, in hundred-thousandths: basic * height * shape
\* (5625 * hf is a multiple of 10 for every hf the chain yields, so \div 10 is exact)
WindPressureE5(hfE1) == (basic_wind_pressure_E4 * hfE1 * shape_factor_E1) \div 10

\* wind_pressure as reported: round(wind_pressure, 3), in thousandths
ReportedPressureE3(hfE1) == RoundDiv(WindPressureE5(hfE1), 100, FloatErrSign(hfE1))

(***************************************************************************)
(* IEEE-754 double arithmetic, as far as line 70, 74 and 82 need it.  A     *)
(* natural number is a sequence of limbs, least significant first, each    *)
(* below LimbBase; a float is m * 2^e with m a natural number of at most    *)
(* MantissaBits bits.                                                      *)
(***************************************************************************)

LimbBits == 13
LimbBase == 8192
MantissaBits == 53

RECURSIVE NatOfInt(_)
NatOfInt(n) == IF n = 0 THEN <<>> ELSE << n % LimbBase >> \o NatOfInt(n \div LimbBase)

RECURSIVE IntOfNat(_)
IntOfNat(x) == IF x = <<>> THEN 0 ELSE Head(x) + LimbBase * IntOfNat(Tail(x))

RECURSIVE NatStrip(_)
NatStrip(x) ==
    IF x = <<>> THEN <<>>
    ELSE IF x[Len(x)] = 0 THEN NatStrip(SubSeq(x, 1, Len(x) - 1))
    ELSE x

RECURSIVE NatAdd(_, _, _)
NatAdd(x, y, c) ==
    IF x = <<>> /\ y = <<>> THEN NatOfInt(c)
    ELSE LET v == (IF x = <<>> THEN 0 ELSE Head(x)) + (IF y = <<>> THEN 0 ELSE Head(y)) + c
         IN  << v % LimbBase >>
                \o NatAdd(IF x = <<>> THEN <<>> ELSE Tail(x),
                          IF y = <<>> THEN <<>> ELSE Tail(y), v \div LimbBase)

\* x * k + c for a machine integer k below 2^17
RECURSIVE NatMulSmall(_, _, _)
NatMulSmall(x, k, c) ==
    IF x = <<>> THEN NatOfInt(c)
    ELSE LET v == Head(x) * k + c
         IN  << v % LimbBase >> \o NatMulSmall(Tail(x), k, v \div LimbBase)

RECURSIVE NatMul(_, _)
NatMul(x, y) ==
    IF y = <<>> THEN <<>>
    ELSE NatAdd(NatMulSmall(x, Head(y), 0), << 0 >> \o NatMul(x, Tail(y)), 0)

RECURSIVE IntBitLen(_)
IntBitLen(n) == IF n = 0 THEN 0 ELSE 1 + IntBitLen(n \div 2)
NatBitLen(x) ==
    LET s == NatStrip(x)
    IN  IF s = <<>> THEN 0 ELSE (Len(s) - 1) * LimbBits + IntBitLen(s[Len(s)])

\* bit i of x (bit 0 is the least significant)
NatBit(x, i) ==
    LET k == (i \div LimbBits) + 1
    IN  IF k > Len(x) THEN 0 ELSE (x[k] \div (2 ^ (i % LimbBits))) % 2

\* x \div 2^s
NatShiftRight(x, s) ==
    LET q == s \div LimbBits
        r == s % LimbBits
        y == SubSeq(x, q + 1, Len(x))
    IN  [ j \in DOMAIN y |->
            (y[j] \div (2 ^ r))
              + (IF j < Len(y) THEN (y[j + 1] % (2 ^ r)) * (2 ^ (LimbBits - r)) ELSE 0) ]

\* whether m / 2^s, cut to the integer q, is rounded up: round to nearest, a tie
\* to the even neighbour
RoundsUp(m, s, q) ==
    /\ s > 0
    /\ NatBit(m, s - 1) = 1
    /\ ((\E i \in 0 .. (s - 2) : NatBit(m, i) = 1) \/ NatBit(q, 0) = 1)

\* the double nearest to m * 2^e
FloatRound(m, e) ==
    LET s == NatBitLen(m) - MantissaBits
    IN  IF s <= 0 THEN [m |-> NatStrip(m), e |-> e]
        ELSE LET q == NatShiftRight(m, s)
             IN  [ m |-> NatStrip(NatAdd(q, <<>>, IF RoundsUp(m, s, q) THEN 1 ELSE 0)),
                   e |-> e + s ]

\* a * b of two doubles
FloatMul(a, b) == FloatRound(NatMul(a.m, b.m), a.e + b.e)

\* Python's round(f, ndigits) of a double with a negative exponent, as the integer
\* f * scale with scale = 10^ndigits: the exact value of the double is rounded,
\* a tie to even
RoundFloat(f, scale) ==
    LET N == NatMulSmall(f.m, scale, 0)
        t == 0 - f.e
        q == NatShiftRight(N, t)
    IN  IntOfNat(NatStrip(q)) + (IF RoundsUp(N, t, q) THEN 1 ELSE 0)

\* the doubles of the literals: 0.5 * 1.25 * (30 ** 2) / 1000 is 9/16 exactly;
\* 1.0, 1.2, 1.4, 1.6 (lines 55-61) and 1.3 (line 67) are the doubles nearest to
\* the decimals: 0x13333333333333 * 2^-52, 0x16666666666666 * 2^-52,
\* 0x1999999999999A * 2^-52 and 0x14CCCCCCCCCCCD * 2^-52
BasicWindPressureFloat == [m |-> << 9 >>, e |-> -4]
HeightFactorFloat(hfE1) ==
    IF hfE1 = 10 THEN [m |-> << 1 >>, e |-> 0]
    ELSE IF hfE1 = 12 THEN [m |-> << 4915, 6553, 3276, 1638, 1 >>, e |-> -52]
    ELSE IF hfE1 = 14 THEN [m |-> << 4915, 6553, 3276, 5734 >>, e |-> -51]
    ELSE [m |-> << 3277, 1638, 4915, 6553 >>, e |-> -51]
ShapeFactorFloat == [m |-> << 3277, 1638, 4915, 2457, 1 >>, e |-> -52]

\* line 70: basic_wind_pressure * height_factor * shape_factor, left to right
WindPressureFloat(hfE1) ==
    FloatMul(FloatMul(BasicWindPressureFloat, HeightFactorFloat(hfE1)), ShapeFactorFloat)

\* total_wind_load as reported: round(wind_pressure * area, 1) of the UNROUNDED
\* pressure (lines 74 and 82), in thousandths (a multiple of 100)
\* (the product taken from the already rounded pressure instead)
TotalFromReportedE3(hfE1, area) == ReportedPressureE3(hfE1) * area
TotalWindLoadE3(hfE1, area) ==
    RoundFloat(FloatMul(WindPressureFloat(hfE1), FloatRound(NatOfInt(area), 0)), 10) * 100

\* the result record; float fields are in thousandths, building_area is the int
\* that round(int, 1) returns
simulate_calculation_results(bp) ==
    LET hf   == height_factor_E1(bp.terrain_category)
        area == bp.width * bp.height
    IN  [ basic_wind_pressure |-> RoundDiv(basic_wind_pressure_E4, 10, 0),
          height_factor       |-> hf * 100,
          shape_factor        |-> shape_factor_E1 * 100,
          wind_pressure       |-> ReportedPressureE3(hf),
          building_area       |-> area,
          total_wind_load     |-> TotalWindLoadE3(hf, area),
          units               |-> [pressure |-> "kN/m2", load |-> "kN", area |-> "m2"] ]

\* create_example_calculations: the three literal records (a name is a sequence of
\* pieces, so that a blank or a slash in it would be a piece of its own)
Examples ==
    << [ name |-> <<"office-tower">>, building_type |-> "office", height |-> 150, width |-> 40,
         depth |-> 30, terrain_category |-> "C", location |-> "Shanghai",
         code_standard |-> "GB50009" ],
       [ name |-> <<"residential-block">>, building_type |-> "residential", height |-> 80,
         width |-> 25, depth |-> 20, terrain_category |-> "B", location |-> "Beijing",
         code_standard |-> "GB50009" ],
       [ name |-> <<"factory-hall">>, building_type |-> "factory", height |-> 20, width |-> 60,
         depth |-> 40, terrain_category |-> "A", location |-> "Guangzhou",
         code_standard |-> "GB50009" ] >>

\* input records for the pure function: the four categories and three values outside
\* them, crossed with dimensions.  The decimal product wind_pressure * area is a
\* tie at one decimal for area = 8 mod 16 (A), 20 mod 40 (B), 40 mod 80 (C) and
\* 5 mod 10 (D and the unknown categories); the areas 25, 100 and 200 are among
\* them, so round(total, 1) is tried where it depends on the float product.
\* The three literal examples have areas 6000, 2000 and 1200.
Terrains == {"A", "B", "C", "D", "a", "", "E"}
Heights  == {5, 40, 80, 120}
Widths   == {5, 20, 40, 60}
Depths   == {20, 30}
BuildingInputs ==
    { [ name |-> <<"b">>, building_type |-> "t", height |-> h, width |-> w, depth |-> d,
        terrain_category |-> t, location |-> "l", code_standard |-> "GB50009" ] :
      h \in Heights, w \in Widths, d \in Depths, t \in Terrains }

InitCalc ==
    /\ building_params \in BuildingInputs \cup { Examples[1], Examples[2], Examples[3] }
    /\ results = <<>>
    /\ QueryIdle /\ ClsIdle /\ RunIdle /\ DocTypeIdle

Simulate ==
    /\ results = <<>>
    /\ results' = << simulate_calculation_results(building_params) >>
    /\ UNCHANGED <<building_params, queryVars, clsVars, envVars, runVars, docTypeVars>>

SpecCalc == InitCalc /\ [][Simulate]_vars

Computed == results # <<>>
IsOfficeTower ==
    /\ building_params.height = 150
    /\ building_params.width = 40
    /\ building_params.terrain_category = "C"

\* C7 as stated: for the 150 m / 40 m / category C building the reported
\* wind_pressure is 0.410 kN/m2 and total_wind_load is the reported pressure
\* times the area 40 * 150.
C7_AsStated ==
    (Computed /\ IsOfficeTower) =>
        /\ results[1].wind_pressure = 410
        /\ results[1].total_wind_load = results[1].wind_pressure * (40 * 150)

\* C7 amended: for that building wind_pressure is 0.5625 * 1.4 * 1.3 = 1.02375
\* rounded to 3 decimals, which is 1.024 kN/m2, and total_wind_load is the
\* unrounded pressure 1.02375 times 6000 rounded to 1 decimal, 6142.5 kN
\* (values in thousandths; 102375 is the pressure in hundred-thousandths).
C7_OfficeTower ==
    (Computed /\ IsOfficeTower) =>
        /\ results[1].wind_pressure = 1024
        /\ results[1].wind_pressure * 100 - 102375 \in -50 .. 50
        /\ results[1].total_wind_load = 6142500
        /\ results[1].total_wind_load * 100 = 102375 * (40 * 150)
        /\ results[1].building_area = 40 * 150

C7_Witness == Computed /\ IsOfficeTower /\ results[1].wind_pressure = 1024

\* C8: the height_factor field is 1.0 for A, 1.2 for B, 1.4 for C, 1.6 for D and
\* 1.6 for every other terrain value, whatever height, width and depth are
\* (values in thousandths).
C8_HeightFactor ==
    Computed =>
        LET t == building_params.terrain_category
            f == results[1].height_factor
        IN  /\ t = "A" => f = 1000
            /\ t = "B" => f = 1200
            /\ t = "C" => f = 1400
            /\ t = "D" => f = 1600
            /\ t \notin {"A", "B", "C", "D"} => f = 1600

C8_Witness ==
    /\ Computed
    /\ building_params.terrain_category = "a"
    /\ results[1].height_factor = 1600

(***************************************************************************)
(* Text                                                                    *)
(***************************************************************************)

\* code points: "W" is U+26A0 and "V" is U+FE0F (together the warning glyph as the
\* source spells it), "X" is U+274C (the error glyph), "P" is U+95EE and "T" is
\* U+9898 (together the word for "problem"), "a" is any other code point
Chars == {"a", "W", "V", "X", "P", "T"}
WarningGlyph == <<"W", "V">>
ErrorGlyph   == <<"X">>
ProblemWord  == <<"P", "T">>

MaxTextLen == 3

RECURSIVE TextsOfLen(_)
TextsOfLen(n) ==
    IF n = 0 THEN { <<>> }
    ELSE { Append(t, c) : t \in TextsOfLen(n - 1), c \in Chars }
TextsUpTo(n) == UNION { TextsOfLen(k) : k \in 0 .. n }

\* Python's  pat in text  for a non-empty pat
Contains(text, pat) ==
    \E i \in 1 .. (Len(text) - Len(pat) + 1) :
        SubSeq(text, i, i + Len(pat) - 1) = pat

\* a classification that forgets the third check
HasIssuesGlyphsOnly(text) ==
    Contains(text, WarningGlyph) \/ Contains(text, ErrorGlyph)
\* ai_code_review.py line 129
HasIssues(text) ==
    \/ Contains(text, WarningGlyph)
    \/ Contains(text, ErrorGlyph)
    \/ Contains(text, ProblemWord)

(***************************************************************************)
(* huggingface_ai_helper.py : HuggingFaceAI.query                          *)
(***************************************************************************)

\* an optional value (a key of **kwargs that may be absent): <<>> or <<v>>
Get(opt, default) == IF opt = <<>> THEN default ELSE opt[1]

DefaultMaxLength   == 500
DefaultTemperature == 7      \* 0.7, in tenths
DefaultTopP        == 9      \* 0.9, in tenths

\* the Python values a caller hands over: a "number" (temperature and top_p in
\* tenths), a "bool" (0 or 1), None ("null"), a "set" such as {1, 2} (which has
\* no JSON form), a dict of such values
Val(type, v) == [type |-> type, v |-> v]
Dict(items) == [type |-> "dict", items |-> items]

\* **kwargs with no key given
NoKwargs ==
    [ max_length |-> <<>>, temperature |-> <<>>, top_p |-> <<>>, do_sample |-> <<>>,
      return_full_text |-> <<>>, wait_for_model |-> <<>>, use_cache |-> <<>>,
      parameters |-> <<>> ]

\* params as lines 48-65 build them: kwargs.get(key, default) for each of the seven
\* keys, then params["parameters"].update(kwargs["parameters"]) when that key is
\* given: every key of the mapping is copied in, and a value that is no mapping
\* (None, a number) makes update raise TypeError.  [raised, params]
MergeParams(prompt, kwargs) ==
    LET base == [ max_length       |-> Get(kwargs.max_length, Val("number", DefaultMaxLength)),
                  temperature      |-> Get(kwargs.temperature, Val("number", DefaultTemperature)),
                  top_p            |-> Get(kwargs.top_p, Val("number", DefaultTopP)),
                  do_sample        |-> Get(kwargs.do_sample, Val("bool", 1)),
                  return_full_text |-> Get(kwargs.return_full_text, Val("bool", 0)) ]
        given  == kwargs.parameters # <<>>
        isDict == given /\ kwargs.parameters[1].type = "dict"
        merged == IF isDict
                  THEN LET upd == kwargs.parameters[1].items
                       IN  [ k \in DOMAIN base \cup DOMAIN upd |->
                               IF k \in DOMAIN upd THEN upd[k] ELSE base[k] ]
                  ELSE base
    IN  [ raised |-> given /\ ~isDict,
          params |-> [ inputs     |-> prompt,
                       parameters |-> merged,
                       options    |-> [ wait_for_model |-> Get(kwargs.wait_for_model, Val("bool", 1)),
                                        use_cache      |-> Get(kwargs.use_cache, Val("bool", 1)) ] ] ]

\* json=params (line 68): requests serialises params before it connects, and
\* json.dumps raises TypeError on a value with no JSON form, at any depth
RECURSIVE Serializable(_)
Serializable(value) ==
    /\ value.type # "set"
    /\ value.type = "dict" =>
          \A k \in DOMAIN value.items : Serializable(value.items[k])

\* a parsed JSON body: its shape and the text it carries (the generated text, the
\* error message, or the scalar's own text)
Shapes ==
    { "list_empty",      \* []
      "list_dict_gt",    \* [{"generated_text": text}]
      "list_dict_nogt",  \* [{"other": text}]
      "list_nondict",    \* [text]
      "dict_gt",         \* {"generated_text": text}
      "dict_error",      \* {"error": text}
      "dict_other",      \* {"other": text}
      "scalar" }         \* text
Resp(shape, text) == [shape |-> shape, text |-> text]
ErrorObject(msg) == Resp("dict_error", msg)

\* what one HTTP POST does: the connection, the status line, the body
HttpOutcome(conn, status, valid, body) ==
    [conn |-> conn, status |-> status, body_valid |-> valid, body |-> body]

\* the exception the try block of lines 67-70 meets, "none" when it meets none:
\* requests.post (connection), raise_for_status (4xx/5xx), response.json (body)
TryBlockException(o) ==
    IF o.conn = "refused" THEN "ConnectionError"
    ELSE IF o.conn = "timeout" THEN "Timeout"
    ELSE IF o.status >= 400 /\ o.status < 600 THEN "HTTPError"
    ELSE IF ~o.body_valid THEN "JSONDecodeError"
    ELSE "none"

\* str(e) of each exception
ExcMessage(exc) ==
    IF exc = "ConnectionError" THEN <<"a">>
    ELSE IF exc = "Timeout" THEN <<"a", "a">>
    ELSE IF exc = "HTTPError" THEN <<"a", "a", "a">>
    ELSE <<"a", "a", "a", "a">>

\* the classes  except requests.exceptions.RequestException  catches (line 71);
\* requests.exceptions.JSONDecodeError derives from RequestException
IsRequestException(exc) ==
    exc \in {"ConnectionError", "Timeout", "HTTPError", "JSONDecodeError"}

\* query: [raised, value, posted]; value is meaningful when raised is FALSE and
\* posted holds the params that went into requests.post, <<>> when none did.
\* Line 65 stands before the try, and TypeError is no RequestException: both
\* leave query as exceptions.
query(prompt, kwargs, o) ==
    LET merged == MergeParams(prompt, kwargs)
        exc    == IF /\ Serializable(Dict(merged.params.parameters))
                     /\ Serializable(Dict(merged.params.options))
                  THEN TryBlockException(o)
                  ELSE "TypeError"
    IN  IF merged.raised
        THEN [raised |-> TRUE, value |-> Resp("scalar", <<>>), posted |-> <<>>]
        ELSE IF exc = "none"
        THEN [raised |-> FALSE, value |-> o.body, posted |-> << merged.params >>]
        ELSE IF IsRequestException(exc)
        THEN [ raised |-> FALSE, value |-> ErrorObject(ExcMessage(exc)),
               posted |-> << merged.params >> ]
        ELSE [raised |-> TRUE, value |-> Resp("scalar", <<>>), posted |-> <<>>]

KwargsSet ==
    { NoKwargs,
      [NoKwargs EXCEPT !.max_length = << Val("number", 800) >>],
      [NoKwargs EXCEPT !.max_length = << Val("set", 0) >>],
      [NoKwargs EXCEPT !.max_length = << Val("null", 0) >>],
      [NoKwargs EXCEPT !.max_length = << Dict([x |-> Val("number", 1)]) >>],
      [NoKwargs EXCEPT !.max_length = << Dict([x |-> Val("set", 0)]) >>],
      [NoKwargs EXCEPT !.temperature = << Val("number", 10) >>],
      [NoKwargs EXCEPT !.top_p = << Val("number", 5) >>],
      [NoKwargs EXCEPT !.do_sample = << Val("bool", 0) >>, !.return_full_text = << Val("bool", 1) >>],
      [NoKwargs EXCEPT !.wait_for_model = << Val("bool", 0) >>, !.use_cache = << Val("bool", 0) >>],
      [NoKwargs EXCEPT !.use_cache = << Val("set", 0) >>],
      [NoKwargs EXCEPT !.parameters = << Dict([max_length |-> Val("number", 50)]) >>],
      [NoKwargs EXCEPT !.max_length = << Val("number", 1500) >>,
                       !.parameters = << Dict([max_length |-> Val("number", 50)]) >>],
      [NoKwargs EXCEPT !.parameters = << Dict([temperature |-> Val("number", 10)]) >>],
      [NoKwargs EXCEPT !.parameters = << Dict([top_k |-> Val("number", 5)]) >>],
      [NoKwargs EXCEPT !.parameters = << Dict([top_k |-> Val("set", 0)]) >>],
      [NoKwargs EXCEPT !.parameters = << Dict([top_k |-> Dict([x |-> Val("set", 0)])]) >>],
      [NoKwargs EXCEPT !.parameters = << Val("null", 0) >>],
      [NoKwargs EXCEPT !.parameters = << Val("number", 5) >>] }

BodyTexts == { <<"a">>, <<"P", "T">> }
Bodies == { Resp(sh, t) : sh \in Shapes, t \in BodyTexts }
NoBody == Resp("scalar", <<>>)
HttpOutcomes ==
    { HttpOutcome("refused", 0, FALSE, NoBody), HttpOutcome("timeout", 0, FALSE, NoBody),
      HttpOutcome("ok", 404, TRUE, NoBody), HttpOutcome("ok", 503, TRUE, NoBody),
      HttpOutcome("ok", 200, FALSE, NoBody) }
    \cup { HttpOutcome("ok", 200, TRUE, b) : b \in Bodies }

InitQuery ==
    /\ q_kwargs \in KwargsSet
    /\ q_outcome \in HttpOutcomes
    /\ q_return = <<>>
    /\ wrapper = "none" /\ w_return = <<>>
    /\ CalcIdle /\ ClsIdle /\ RunIdle /\ DocTypeIdle

Query ==
    /\ q_return = <<>>
    /\ q_return' = << query("prompt", q_kwargs, q_outcome) >>
    /\ UNCHANGED <<q_kwargs, q_outcome, wrapper, w_return, calcVars, clsVars, envVars,
                   runVars, docTypeVars>>

SpecQuery == InitQuery /\ [][Query]_vars

\* C3 as stated: for every set of caller overrides and every outcome of the POST
\* query never raises; it returns the parsed body when the POST succeeds
\* (connected, status below 400, body valid JSON) and the error object
\* {"error": <message>} when the connection fails or the status is 4xx/5xx.
C3_QueryNeverRaises ==
    q_return # <<>> =>
        /\ ~q_return[1].raised
        /\ (q_outcome.conn = "ok" /\ q_outcome.status = 200 /\ q_outcome.body_valid)
              => q_return[1].value = q_outcome.body
        /\ q_outcome.conn = "refused"
              => q_return[1].value = ErrorObject(ExcMessage("ConnectionError"))
        /\ q_outcome.conn = "timeout"
              => q_return[1].value = ErrorObject(ExcMessage("Timeout"))
        /\ (q_outcome.conn = "ok" /\ q_outcome.status >= 400)
              => q_return[1].value = ErrorObject(ExcMessage("HTTPError"))

(***************************************************************************)
(* ai_code_review.py : perform_ai_code_review                              *)
(***************************************************************************)

\* str(value) of a response that matched neither shape: a dict or a list prints
\* with its brackets and quotes around the text, a scalar prints as its text
Str(resp) ==
    IF resp.shape = "list_empty" THEN <<"a", "a">>
    ELSE IF resp.shape = "scalar" THEN resp.text
    ELSE <<"a">> \o resp.text \o <<"a">>

\* lines 118-123 (and the same chain in generate_review_summary, lines 167-172, and
\* generate_module_overview, lines 101-106): [raised, text].  review[0].get raises
\* AttributeError when the first element of the list is not a dict.
ExtractText(resp, default) ==
    IF resp.shape \in {"list_dict_gt", "list_dict_nogt", "list_nondict"}
    THEN IF resp.shape = "list_nondict" THEN [raised |-> TRUE, text |-> <<>>]
         ELSE IF resp.shape = "list_dict_gt" THEN [raised |-> FALSE, text |-> resp.text]
         ELSE [raised |-> FALSE, text |-> default]
    ELSE IF resp.shape = "dict_gt" THEN [raised |-> FALSE, text |-> resp.text]
    ELSE [raised |-> FALSE, text |-> Str(resp)]

(***************************************************************************)
(* huggingface_ai_helper.py : the four convenience wrappers                *)
(***************************************************************************)

Wrappers ==
    { "generate_documentation", "explain_concept", "generate_calculation_report",
      "answer_technical_question" }

\* the max_length each wrapper hands to query (lines 102, 133, 178, 224)
WrapperKwargs(w) ==
    [ NoKwargs EXCEPT
        !.max_length = IF w = "explain_concept" THEN << Val("number", 600) >>
                       ELSE IF w = "generate_calculation_report" THEN << Val("number", 1000) >>
                       ELSE << Val("number", 800) >> ]

\* the default of result[0].get("generated_text", default) in each wrapper
\* (lines 105, 136, 181, 227): four different fixed texts
WrapperDefault(w) ==
    IF w = "generate_documentation" THEN <<"a", "a">>
    ELSE IF w = "explain_concept" THEN <<"a", "a", "a">>
    ELSE IF w = "generate_calculation_report" THEN <<"a", "a", "a", "a">>
    ELSE <<"a", "a", "a", "a", "a">>

\* a wrapper: one query, then the chain of lines 104-109 (the same in all four);
\* [raised, text, result]
CallWrapper(w, o) ==
    LET result == query(w, WrapperKwargs(w), o)
        ext    == ExtractText(result.value, WrapperDefault(w))
    IN  [ raised |-> result.raised \/ ext.raised,
          text   |-> ext.text,
          result |-> result ]

InitWrap ==
    /\ wrapper \in Wrappers
    /\ q_kwargs = WrapperKwargs(wrapper)
    /\ q_outcome \in HttpOutcomes
    /\ q_return = <<>> /\ w_return = <<>>
    /\ CalcIdle /\ ClsIdle /\ RunIdle /\ DocTypeIdle

Wrap ==
    /\ w_return = <<>>
    /\ q_return' = << CallWrapper(wrapper, q_outcome).result >>
    /\ w_return' = << [ raised |-> CallWrapper(wrapper, q_outcome).raised,
                        text   |-> CallWrapper(wrapper, q_outcome).text ] >>
    /\ UNCHANGED <<q_kwargs, q_outcome, wrapper, calcVars, clsVars, envVars, runVars, docTypeVars>>

SpecWrap == InitWrap /\ [][Wrap]_vars

\* the response shapes that carry the generated-text field where the wrappers
\* look for it
CarriesGeneratedText(resp) == resp.shape \in {"list_dict_gt", "dict_gt"}

\* C11 as stated: for every value query returns, the wrapper returns (does not
\* raise) the generated text when the response carries it and the stringified
\* raw response in every other case.
C11_AsStated ==
    w_return # <<>> =>
        /\ ~w_return[1].raised
        /\ w_return[1].text =
               IF CarriesGeneratedText(q_return[1].value)
               THEN q_return[1].value.text
               ELSE Str(q_return[1].value)

NoRecord == [file |-> <<>>, analysis |-> <<>>, review |-> <<>>, has_issues |-> FALSE]

\* perform_ai_code_review: [raised, record, net_failed]; net_failed tells that query
\* met a RequestException and printed its failure line (line 72 of the helper)
perform_ai_code_review(filepath, analysis, o) ==
    LET review == query("review", [NoKwargs EXCEPT !.max_length = << Val("number", 1500) >>], o)
        ext    == ExtractText(review.value, <<>>)
        failed == TryBlockException(o) # "none"
    IN  IF review.raised \/ ext.raised
        THEN [raised |-> TRUE, record |-> NoRecord, net_failed |-> failed]
        ELSE [ raised |-> FALSE,
               record |-> [ file       |-> filepath,
                            analysis   |-> analysis,
                            review     |-> ext.text,
                            has_issues |-> HasIssues(ext.text) ],
               net_failed |-> failed ]

\* SpecClassify: one file is reviewed, the service answering with review_text as
\* the generated text; the text is then changed and the file reviewed again
ClsFile     == <<"src", "wind.py">>
ClsAnalysis == [file |-> ClsFile, functions |-> 2, classes |-> 1, line_count |-> 10]
Generated(text) == HttpOutcome("ok", 200, TRUE, Resp("list_dict_gt", text))
Reviewed(text) == << perform_ai_code_review(ClsFile, ClsAnalysis, Generated(text)).record >>

Clean(text) ==
    /\ ~Contains(text, WarningGlyph)
    /\ ~Contains(text, ErrorGlyph)
    /\ ~Contains(text, ProblemWord)

\* text with pat put in after its first i code points
InsertAt(text, i, pat) == SubSeq(text, 1, i) \o pat \o SubSeq(text, i + 1, Len(text))

InitClassify ==
    /\ review_text \in TextsUpTo(MaxTextLen)
    /\ review_record = <<>>
    /\ review_op = "init"
    /\ CalcIdle /\ QueryIdle /\ RunIdle /\ DocTypeIdle

FirstReview ==
    /\ review_record = <<>>
    /\ review_record' = Reviewed(review_text)
    /\ review_op' = "review"
    /\ UNCHANGED <<review_text, calcVars, queryVars, envVars, runVars, docTypeVars>>

\* the problem word is put into a clean text, at any position
InjectProblem ==
    /\ review_record # <<>>
    /\ Clean(review_text)
    /\ Len(review_text) <= MaxTextLen
    /\ \E i \in 0 .. Len(review_text) :
          /\ review_text' = InsertAt(review_text, i, ProblemWord)
          /\ review_record' = Reviewed(review_text')
    /\ review_op' = "inject"
    /\ UNCHANGED <<calcVars, queryVars, envVars, runVars, docTypeVars>>

\* further text is added to the text, at any position
AddText ==
    /\ review_record # <<>>
    /\ \E t \in TextsOfLen(1) \cup TextsOfLen(2), i \in 0 .. Len(review_text) :
          /\ Len(review_text) + Len(t) <= MaxTextLen + 2
          /\ review_text' = InsertAt(review_text, i, t)
          /\ review_record' = Reviewed(review_text')
    /\ review_op' = "add"
    /\ UNCHANGED <<calcVars, queryVars, envVars, runVars, docTypeVars>>

NextClassify == FirstReview \/ InjectProblem \/ AddText

SpecClassify == InitClassify /\ [][NextClassify]_vars

\* C9 as stated, its last part: adding any further text never turns has_issues
\* from true to false.
C9_AsStated ==
    [][ (review_record # <<>> /\ review_op' = "add" /\ review_record[1].has_issues)
           => review_record'[1].has_issues ]_vars

\* text is what old became by text added in front of it or behind it
Extends(old, text) ==
    /\ Len(old) <= Len(text)
    /\ \/ SubSeq(text, 1, Len(old)) = old
       \/ SubSeq(text, Len(text) - Len(old) + 1, Len(text)) = old

\* C9 amended: the record carries the generated text as its review, and
\* has_issues is the OR of the three substring checks on it; putting the problem
\* word into a text that has none of the three, at any position, turns has_issues
\* from false to true and leaves file and analysis as they were; text added in
\* front of or behind the review text never turns has_issues from true to false
\* (text put inside it can: it may split the only keyword occurrence).
C9_Monotonic ==
    /\ [](review_record # <<>> =>
            /\ review_record[1].review = review_text
            /\ review_record[1].has_issues <=>
                  (\/ Contains(review_text, WarningGlyph)
                   \/ Contains(review_text, ErrorGlyph)
                   \/ Contains(review_text, ProblemWord)))
    /\ [][ (review_record # <<>> /\ review_record' # <<>>) =>
             /\ review_op' = "inject" =>
                   /\ ~review_record[1].has_issues
                   /\ review_record'[1].has_issues
                   /\ review_record'[1].file = review_record[1].file
                   /\ review_record'[1].analysis = review_record[1].analysis
             /\ ( /\ review_op' = "add" /\ review_record[1].has_issues
                  /\ Extends(review_text, review_text') ) =>
                   review_record'[1].has_issues ]_vars

C9_Witness ==
    /\ review_op = "inject"
    /\ review_record # <<>>
    /\ review_record[1].has_issues
    /\ review_text = <<"a", "P", "T", "W">>

(***************************************************************************)
(* The scripts' environment: the working directory and the HTTP service    *)
(***************************************************************************)

\* a path: its directory (a sequence of components, each a sequence of pieces) and
\* its file name (a sequence of pieces: the stem, then each suffix)
Path(dir, name) == [dir |-> dir, name |-> name]
\* a directory whose components are one piece each
Dir(names) == [i \in DOMAIN names |-> << names[i] >>]

\* str(path): the components and the name with "/" between them
RECURSIVE PathStr(_)
PathStr(p) ==
    IF p.dir = <<>> THEN p.name
    ELSE Head(p.dir) \o <<"/">> \o PathStr(Path(Tail(p.dir), p.name))

\* what a source file holds: what ast.parse does with it ("ok", or the exception
\* it raises: "SyntaxError" on text outside the grammar, "RecursionError" on
\* valid text nested too deep for the parser), how many function and class
\* definitions it has, its lines, and whether the text contains "class " / "def "
Content(parse, nf, nc, lines, hasClass, hasDef) ==
    [ parse |-> parse, functions |-> nf, classes |-> nc, lines |-> lines,
      has_class |-> hasClass, has_def |-> hasDef ]

\* a file below the working directory
File(dir, name, content) == [dir |-> dir, name |-> name, content |-> content]
PathOf(f) == Path(f.dir, f.name)

FileUniverse ==
    { File(Dir(<<"src", "a">>), <<"util", ".py">>, Content("ok", 2, 1, 10, TRUE, TRUE)),
      File(Dir(<<"src", "b">>), <<"util", ".py">>, Content("SyntaxError", 0, 0, 3, FALSE, TRUE)),
      File(Dir(<<"src">>), <<"OVERVIEW", ".py">>, Content("ok", 1, 0, 4, FALSE, TRUE)),
      File(Dir(<<"src">>), <<"README", ".py">>, Content("ok", 0, 0, 1, FALSE, FALSE)),
      File(Dir(<<"src">>), <<"notes", ".md">>, Content("SyntaxError", 0, 0, 2, FALSE, FALSE)),
      File(Dir(<<"src">>), <<".py">>, Content("ok", 1, 0, 5, FALSE, TRUE)),
      File(<<>>, <<"setup", ".py">>, Content("RecursionError", 0, 0, 2, FALSE, FALSE)) }

MaxFiles == 2

Range(seq) == { seq[i] : i \in DOMAIN seq }

\* the working directory's files in the order os.walk meets them
RECURSIVE TreesOfLen(_)
TreesOfLen(n) ==
    IF n = 0 THEN { <<>> }
    ELSE UNION { { Append(t, f) : f \in FileUniverse \ Range(t) } :
                 t \in TreesOfLen(n - 1) }
Trees == UNION { TreesOfLen(k) : k \in 0 .. MaxFiles }

\* the answers of the inference service the pipelines are run against
PipelineOutcomes ==
    { HttpOutcome("refused", 0, FALSE, NoBody),
      HttpOutcome("ok", 200, TRUE, Resp("list_dict_gt", <<"a">>)),
      HttpOutcome("ok", 200, TRUE, Resp("list_dict_gt", <<"P", "T">>)),
      HttpOutcome("ok", 200, TRUE, Resp("list_nondict", <<"a">>)) }

(***************************************************************************)
(* find_python_files (ai_code_review.py 19-28, ai_documentation.py 13-22)  *)
(***************************************************************************)

EndsWithPy(name) == name[Len(name)] = ".py"
\* os.walk(directory) meets the files below directory; a file at the root of the
\* working directory is below "." only
UnderDir(f, directory) ==
    directory = "." \/ (f.dir # <<>> /\ f.dir[1] = << directory >>)
find_python_files(directory) ==
    SelectSeq(tree, LAMBDA f : UnderDir(f, directory) /\ EndsWithPy(f.name))

\* python_files = find_python_files("src"), and find_python_files(".") when that
\* is empty: [files, walks]
DiscoverFiles ==
    IF find_python_files("src") # <<>>
    THEN [files |-> find_python_files("src"), walks |-> 1]
    ELSE [files |-> find_python_files("."), walks |-> 2]

(***************************************************************************)
(* main of ai_code_review.py and ai_documentation.py: the credential check *)
(***************************************************************************)

\* Python's truth value of os.getenv("HF_TOKEN"): None and "" are false
Truthy(tok) == tok = "set"

\* HuggingFaceAI.__init__ raises ValueError when the argument and the environment
\* variable are both false
InitRaises(api_token) == ~(Truthy(api_token) \/ Truthy(token))

\* lines 235-248 (review), 125-138 (documentation): sys.exit(1) when the token is
\* missing or the client cannot be built, else go on to the discovery
CheckCredential ==
    IF ~Truthy(token) \/ InitRaises(token)
    THEN pc' = "exit" /\ exit_code' = 1
    ELSE pc' = "discover" /\ exit_code' = exit_code

restVars == <<docs_dir_exists, python_files, idx, all_reviews, generated_files,
              generated_reports, writes, net_failed, walks, reads, posts>>
loopVars == <<all_reviews, generated_files, generated_reports, writes, net_failed,
              reads, posts, docs_dir_exists>>

\* a main that walks the tree before it looks at the token
RevStartWalksFirst ==
    /\ script = "review" /\ pc = "start"
    /\ walks' = DiscoverFiles.walks
    /\ CheckCredential
    /\ UNCHANGED <<docs_dir_exists, python_files, idx, all_reviews, generated_files,
                   generated_reports, writes, net_failed, reads, posts>>
    /\ UNCHANGED <<pureVars, envVars>>
RevStart ==
    /\ script = "review" /\ pc = "start"
    /\ CheckCredential
    /\ UNCHANGED <<restVars, pureVars, envVars>>

RevDiscover ==
    /\ script = "review" /\ pc = "discover"
    /\ python_files' = DiscoverFiles.files
    /\ walks' = walks + DiscoverFiles.walks
    /\ idx' = 0
    /\ pc' = "loop"
    /\ UNCHANGED <<exit_code, loopVars, pureVars, envVars>>

(***************************************************************************)
(* ai_code_review.py : analyze_code_structure, the loop of main            *)
(***************************************************************************)

\* an analysis that loses the line count when the parse fails
AnalyzeDropsLineCount(filepath, content) ==
    [ raised   |-> content.parse \notin {"ok", "SyntaxError"},
      analysis |->
        IF content.parse = "ok"
        THEN [ file |-> filepath,
               fields |-> {"file", "functions", "classes", "imports", "line_count", "char_count"},
               functions |-> content.functions,
               classes |-> content.classes,
               line_count |-> content.lines ]
        ELSE [ file |-> filepath,
               fields |-> {"file", "error"},
               functions |-> 0,
               classes |-> 0,
               line_count |-> 0 ] ]
\* [raised, analysis].  The except of line 69 names SyntaxError alone: any other
\* exception of ast.parse (RecursionError on text nested too deep) leaves the
\* function, and analysis is then no value of the program.  The keys of the
\* returned dict are in fields; functions and classes hold the lengths of the
\* lists (0 when the key is absent)
analyze_code_structure(filepath, content) ==
    [ raised   |-> content.parse \notin {"ok", "SyntaxError"},
      analysis |->
        IF content.parse = "ok"
        THEN [ file |-> filepath,
               fields |-> {"file", "functions", "classes", "imports", "line_count", "char_count"},
               functions |-> content.functions,
               classes |-> content.classes,
               line_count |-> content.lines ]
        ELSE [ file |-> filepath,
               fields |-> {"file", "error", "line_count"},
               functions |-> 0,
               classes |-> 0,
               line_count |-> content.lines ] ]

\* analysis.get(key, default) for the keys functions, classes and line_count
AnalysisGet(analysis, key, default) ==
    IF key \notin analysis.fields THEN default
    ELSE IF key = "functions" THEN analysis.functions
    ELSE IF key = "classes" THEN analysis.classes
    ELSE analysis.line_count

\* a loop body that asks a second time when the request failed
ReviewFileRetries ==
    /\ script = "review" /\ pc = "loop" /\ idx < Len(python_files)
    /\ LET f == python_files[idx + 1]
           a == analyze_code_structure(PathOf(f), f.content)
       IN
       \/ /\ reads' = reads + 1 /\ idx' = idx + 1
          /\ UNCHANGED <<pc, all_reviews, net_failed, posts>>
       \/ /\ a.raised
          /\ reads' = reads + 1 /\ idx' = idx + 1
          /\ UNCHANGED <<pc, all_reviews, net_failed, posts>>
       \/ /\ ~a.raised
          /\ \E o \in PipelineOutcomes :
                LET r == perform_ai_code_review(PathOf(f), a.analysis, o)
                IN  /\ reads' = reads + 1 /\ idx' = idx + 1
                    /\ posts' = IF r.net_failed THEN posts + 2 ELSE posts + 1
                    /\ net_failed' = IF r.net_failed THEN net_failed \cup {PathOf(f)}
                                     ELSE net_failed
                    /\ all_reviews' = IF r.raised THEN all_reviews
                                      ELSE Append(all_reviews, r.record)
                    /\ UNCHANGED pc
       \/ /\ ~a.raised
          /\ reads' = reads + 1 /\ posts' = posts + 1
          /\ pc' = "blocked"
          /\ UNCHANGED <<idx, all_reviews, net_failed>>
    /\ UNCHANGED <<exit_code, python_files, walks, generated_files,
                   generated_reports, writes, docs_dir_exists, pureVars, envVars>>
\* lines 262-280, one pass of the loop body: open and read, analyse, review,
\* append.  The except of line 279 catches an OSError of the read and whatever
\* analyze_code_structure or the review raises, and the loop goes on.
\* requests.post (helper line 68) has no timeout: when the service accepts the
\* request and never answers, the call never returns and the run stands blocked.
ReviewFile ==
    /\ script = "review" /\ pc = "loop" /\ idx < Len(python_files)
    /\ LET f == python_files[idx + 1]
           a == analyze_code_structure(PathOf(f), f.content)
       IN
       \/ /\ reads' = reads + 1 /\ idx' = idx + 1
          /\ UNCHANGED <<pc, all_reviews, net_failed, posts>>
       \/ /\ a.raised
          /\ reads' = reads + 1 /\ idx' = idx + 1
          /\ UNCHANGED <<pc, all_reviews, net_failed, posts>>
       \/ /\ ~a.raised
          /\ \E o \in PipelineOutcomes :
                LET r == perform_ai_code_review(PathOf(f), a.analysis, o)
                IN  /\ reads' = reads + 1 /\ idx' = idx + 1
                    /\ posts' = posts + 1
                    /\ net_failed' = IF r.net_failed THEN net_failed \cup {PathOf(f)}
                                     ELSE net_failed
                    /\ all_reviews' = IF r.raised THEN all_reviews
                                      ELSE Append(all_reviews, r.record)
                    /\ UNCHANGED pc
       \/ /\ ~a.raised
          /\ reads' = reads + 1 /\ posts' = posts + 1
          /\ pc' = "blocked"
          /\ UNCHANGED <<idx, all_reviews, net_failed>>
    /\ UNCHANGED <<exit_code, python_files, walks, generated_files,
                   generated_reports, writes, docs_dir_exists, pureVars, envVars>>

(***************************************************************************)
(* ai_code_review.py : generate_review_summary, save_review_results        *)
(***************************************************************************)

RECURSIVE SumOver(_, _)
SumOver(seq, key) ==
    IF seq = <<>> THEN 0
    ELSE AnalysisGet(Head(seq).analysis, key, 0) + SumOver(Tail(seq), key)

Flagged(reviews) == SelectSeq(reviews, LAMBDA r : r.has_issues)


\* generate_review_summary: [raised, summary, data]
generate_review_summary(reviews, o) ==
    LET answer == query("summary", [NoKwargs EXCEPT !.max_length = << Val("number", 1000) >>], o)
        ext    == ExtractText(answer.value, <<>>)
    IN  [ raised  |-> answer.raised \/ ext.raised,
          summary |-> ext.text,
          data    |-> [ total_files       |-> Len(reviews),
                        files_with_issues |-> Len(Flagged(reviews)),
                        total_functions   |-> SumOver(reviews, "functions"),
                        total_classes     |-> SumOver(reviews, "classes") ] ]

\* what a written file is about: a source file, or one of the run's own artifacts
Item(kind, path) == [kind |-> kind, file |-> path]
NoPath == Path(<<>>, <<>>)
Written(path, item, content) == [path |-> path, item |-> item, content |-> content]

\* Path(review["file"]).name.replace(".py", "_review.md"): every ".py" piece
ReplacePy(name) ==
    [ i \in DOMAIN name |-> IF name[i] = ".py" THEN "_review.md" ELSE name[i] ]
ReviewPath(filepath) == Path(Dir(<<"code_reviews">>), ReplacePy(filepath.name))

\* the files save_review_results writes, in order: one per review, SUMMARY.md,
\* review_data.json, and ai_review_comments.json when GITHUB_ACTIONS is set
ReviewWrites(reviews, summary) ==
    [ i \in DOMAIN reviews |->
        Written(ReviewPath(reviews[i].file), Item("file", reviews[i].file),
                [ line_count |-> AnalysisGet(reviews[i].analysis, "line_count", 0),
                  review     |-> reviews[i].review ]) ]
    \o << Written(Path(Dir(<<"code_reviews">>), <<"SUMMARY", ".md">>), Item("summary", NoPath),
                  [summary |-> summary.summary]),
          Written(Path(Dir(<<"code_reviews">>), <<"review_data", ".json">>), Item("data", NoPath),
                  [data |-> summary.data, reviews |-> Len(reviews)]) >>
    \o ( IF github_actions
         THEN << Written(Path(<<>>, <<"ai_review_comments", ".json">>),
                         Item("comments", NoPath),
                         [ comments |-> [ j \in DOMAIN Flagged(reviews) |->
                                            [path |-> Flagged(reviews)[j].file, line |-> 1] ] ]) >>
         ELSE <<>> )

\* lines 282-302: nothing to do without reviews; else the summary (one more query,
\* outside any try, which blocks the run when the service never answers) and
\* save_review_results (mkdir and the writes, outside any try: the first one that
\* fails ends the process with a traceback)
RevSummarise ==
    /\ script = "review" /\ pc = "loop" /\ idx = Len(python_files)
    /\ IF all_reviews = <<>>
       THEN /\ pc' = "done" /\ exit_code' = 0
            /\ UNCHANGED <<writes, posts>>
       ELSE \/ /\ posts' = posts + 1
               /\ pc' = "blocked"
               /\ UNCHANGED <<exit_code, writes>>
            \/ \E o \in PipelineOutcomes :
                 LET s == generate_review_summary(all_reviews, o)
                     W == ReviewWrites(all_reviews, s)
                 IN  /\ posts' = posts + 1
                     /\ IF s.raised
                        THEN /\ pc' = "crashed" /\ exit_code' = 1
                             /\ UNCHANGED writes
                        ELSE \E k \in 0 .. Len(W) :
                                /\ writes' = writes \o SubSeq(W, 1, k)
                                /\ IF k = Len(W)
                                   THEN pc' = "done" /\ exit_code' = 0
                                   ELSE pc' = "crashed" /\ exit_code' = 1
    /\ UNCHANGED <<python_files, idx, all_reviews, generated_files, generated_reports,
                   net_failed, walks, reads, docs_dir_exists, pureVars, envVars>>

(***************************************************************************)
(* ai_documentation.py                                                     *)
(***************************************************************************)

DocStart ==
    /\ script = "docs" /\ pc = "start"
    /\ CheckCredential
    /\ UNCHANGED <<restVars, pureVars, envVars>>

DocDiscover ==
    /\ script = "docs" /\ pc = "discover"
    /\ python_files' = DiscoverFiles.files
    /\ walks' = walks + DiscoverFiles.walks
    /\ idx' = 0
    /\ pc' = "loop"
    /\ UNCHANGED <<exit_code, loopVars, pureVars, envVars>>

\* determine_doc_type: "__init__.py" in str(filename) is a substring test on the
\* whole path
determine_doc_type(filename, content) ==
    IF Contains(PathStr(filename), <<"__init__", ".py">>) THEN "module"
    ELSE IF content.has_class /\ content.has_def THEN "class"
    ELSE IF content.has_def THEN "function"
    ELSE "module"

\* the text of a source file as determine_doc_type sees it: pieces of text, of
\* which "class" and "def" are the two keywords and " " the blank after them
DocPieces == {"class", "def", " ", "x"}
ClassKeyword == <<"class", " ">>
DefKeyword   == <<"def", " ">>

MaxDocLen == 4

RECURSIVE DocTextsOfLen(_)
DocTextsOfLen(n) ==
    IF n = 0 THEN { <<>> }
    ELSE { Append(t, c) : t \in DocTextsOfLen(n - 1), c \in DocPieces }
DocTexts == UNION { DocTextsOfLen(k) : k \in 0 .. MaxDocLen }

\* "class " in content  and  "def " in content  (lines 37 and 39)
ScanContent(text) ==
    [ has_class |-> Contains(text, ClassKeyword), has_def |-> Contains(text, DefKeyword) ]

\* the paths determine_doc_type is tried on: a package initializer, an ordinary
\* module, and two modules whose names end in, or go on after, __init__.py
DocTypeFilenames ==
    { Path(Dir(<<"src", "pkg">>), <<"__init__", ".py">>),
      Path(Dir(<<"src", "a">>), <<"util", ".py">>),
      Path(Dir(<<"src">>), <<"my", "__init__", ".py">>),
      Path(Dir(<<"src">>), <<"__init__", ".py", "x">>),
      Path(Dir(<<"src", "__init__">>), <<".py">>),
      Path(<< <<"src">>, <<"__init__", ".py">> >>, <<"util", ".py">>) }

InitDocType ==
    /\ d_filename \in DocTypeFilenames
    /\ d_content \in DocTexts
    /\ d_type = <<>>
    /\ CalcIdle /\ QueryIdle /\ ClsIdle /\ RunIdle

DetermineDocType ==
    /\ d_type = <<>>
    /\ d_type' = << determine_doc_type(d_filename, ScanContent(d_content)) >>
    /\ UNCHANGED <<d_filename, d_content, calcVars, queryVars, clsVars, envVars, runVars>>

SpecDocType == InitDocType /\ [][DetermineDocType]_vars

\* C13 as stated: the type is "module" for a file named __init__.py, and for any
\* other file "class" when the text holds both keywords, "function" when it holds
\* the def keyword, "module" otherwise.
C13_AsStated ==
    d_type # <<>> =>
        d_type[1] =
            IF d_filename.name = <<"__init__", ".py">> THEN "module"
            ELSE IF Contains(d_content, ClassKeyword) /\ Contains(d_content, DefKeyword)
                 THEN "class"
            ELSE IF Contains(d_content, DefKeyword) THEN "function"
            ELSE "module"

\* the wrapper's default text when the first list element has no generated_text
DocFailedText == <<"a", "a">>

\* HuggingFaceAI.generate_documentation (helper lines 102-109): [raised, text]
helper_generate_documentation(o) ==
    LET result == query("document", [NoKwargs EXCEPT !.max_length = << Val("number", 800) >>], o)
        ext    == ExtractText(result.value, DocFailedText)
    IN  [raised |-> result.raised \/ ext.raised, text |-> ext.text]

\* the pieces that begin with a dot
DotPieces == {".py", ".md", ".json"}
\* Path.stem: the name without its last suffix; a suffix begins at the last dot of
\* the name, and a dot that opens the name begins none (".py" has the stem ".py")
Stem(name) ==
    LET dots == { i \in DOMAIN name : i > 1 /\ name[i] \in DotPieces }
    IN  IF dots = {} THEN name
        ELSE SubSeq(name, 1, (CHOOSE i \in dots : \A j \in dots : j <= i) - 1)
\* Path("docs") / filepath.parent.relative_to("src") / f"{filepath.stem}.md";
\* relative_to raises ValueError for a path that is not below src
UnderSrc(filepath) == filepath.dir # <<>> /\ filepath.dir[1] = <<"src">>
DocsPath(filepath) ==
    Path(Dir(<<"docs">>) \o Tail(filepath.dir), Stem(filepath.name) \o <<".md">>)
OverviewPath == Path(Dir(<<"docs">>), <<"OVERVIEW", ".md">>)
IndexPath    == Path(Dir(<<"docs">>), <<"README", ".md">>)
ReportPath   == Path(<<>>, <<"docs_generation_report", ".json">>)

\* what the file system does to one mkdir-then-write
IoOutcomes == {"ok", "mkdir_fails", "write_fails"}

\* lines 153-161, one pass of the loop body.  read_file_content returns "" when
\* the file cannot be read and the file is skipped; else generate_documentation
\* runs inside try/except Exception, and its POST blocks the run when the
\* service never answers.
DocFile ==
    /\ script = "docs" /\ pc = "loop" /\ idx < Len(python_files)
    /\ LET f == python_files[idx + 1] IN
       \/ /\ reads' = reads + 1 /\ idx' = idx + 1
          /\ UNCHANGED <<pc, generated_files, writes, net_failed, posts, docs_dir_exists>>
       \/ /\ reads' = reads + 1 /\ posts' = posts + 1
          /\ pc' = "blocked"
          /\ UNCHANGED <<idx, generated_files, writes, net_failed, docs_dir_exists>>
       \/ \E o \in PipelineOutcomes, io \in IoOutcomes :
             LET doc_type == determine_doc_type(PathOf(f), f.content)
                 d        == helper_generate_documentation(o)
                 placed   == ~d.raised /\ UnderSrc(PathOf(f))
                 saved    == placed /\ io = "ok"
             IN  /\ reads' = reads + 1 /\ idx' = idx + 1
                 /\ UNCHANGED pc
                 /\ posts' = posts + 1
                 /\ net_failed' = IF TryBlockException(o) # "none"
                                  THEN net_failed \cup {PathOf(f)} ELSE net_failed
                 /\ docs_dir_exists' = (docs_dir_exists \/ (placed /\ io # "mkdir_fails"))
                 /\ writes' = IF saved
                              THEN Append(writes,
                                     Written(DocsPath(PathOf(f)), Item("file", PathOf(f)),
                                             [doc_type |-> doc_type, documentation |-> d.text]))
                              ELSE writes
                 /\ generated_files' = IF saved
                                       THEN Append(generated_files, DocsPath(PathOf(f)))
                                       ELSE generated_files
    /\ UNCHANGED <<exit_code, python_files, walks, all_reviews, generated_reports,
                   pureVars, envVars>>


\* lines 163-169: generate_module_overview inside try/except Exception; it reads
\* every file again, asks for the overview (a POST that blocks the run when the
\* service never answers) and writes docs/OVERVIEW.md
DocOverview ==
    /\ script = "docs" /\ pc = "loop" /\ idx = Len(python_files)
    /\ IF python_files = <<>>
       THEN /\ pc' = "index"
            /\ UNCHANGED <<generated_files, writes, reads, posts, docs_dir_exists>>
       ELSE \/ \E o \in PipelineOutcomes, io \in IoOutcomes :
                 LET overview == query("overview", [NoKwargs EXCEPT !.max_length = << Val("number", 1000) >>], o)
                     ext      == ExtractText(overview.value, <<>>)
                     asked    == ~(overview.raised \/ ext.raised)
                     saved    == asked /\ io = "ok"
                 IN  /\ reads' = reads + Len(python_files)
                     /\ posts' = posts + 1
                     /\ pc' = "index"
                     /\ docs_dir_exists' = (docs_dir_exists \/ (asked /\ io # "mkdir_fails"))
                     /\ writes' = IF saved
                                  THEN Append(writes,
                                         Written(OverviewPath, Item("overview", NoPath),
                                                 [overview |-> ext.text]))
                                  ELSE writes
                     /\ generated_files' = IF saved THEN Append(generated_files, OverviewPath)
                                           ELSE generated_files
            \/ /\ reads' = reads + Len(python_files)
               /\ posts' = posts + 1
               /\ pc' = "blocked"
               /\ UNCHANGED <<generated_files, writes, docs_dir_exists>>
    /\ UNCHANGED <<exit_code, python_files, idx, walks, all_reviews, generated_reports,
                   net_failed, pureVars, envVars>>

\* the links of the module section: every generated file whose name is neither
\* OVERVIEW.md nor README.md, relative to docs
IndexLinks(files) ==
    LET listed == SelectSeq(files, LAMBDA g : g.name # <<"OVERVIEW", ".md">>
                                           /\ g.name # <<"README", ".md">>)
    IN  [ i \in DOMAIN listed |-> Path(Tail(listed[i].dir), listed[i].name) ]

\* lines 171-186: open docs/README.md for writing, outside any try; the open fails
\* when docs/ does not exist
DocIndex ==
    /\ script = "docs" /\ pc = "index"
    /\ \E io \in {"ok", "write_fails"} :
          IF docs_dir_exists /\ io = "ok"
          THEN /\ writes' = Append(writes,
                              Written(IndexPath, Item("index", NoPath),
                                      [ overview_link |-> TRUE,
                                        links |-> IndexLinks(generated_files) ]))
               /\ pc' = "report" /\ exit_code' = exit_code
          ELSE /\ pc' = "crashed" /\ exit_code' = 1
               /\ UNCHANGED writes
    /\ UNCHANGED <<python_files, idx, walks, reads, posts, all_reviews, generated_files,
                   generated_reports, net_failed, docs_dir_exists, pureVars, envVars>>

\* lines 193-204: docs_generation_report.json, outside any try
DocReport ==
    /\ script = "docs" /\ pc = "report"
    /\ \E io \in {"ok", "write_fails"} :
          IF io = "ok"
          THEN /\ writes' = Append(writes,
                              Written(ReportPath, Item("report", NoPath),
                                      [ files_processed |-> Len(python_files),
                                        docs_generated  |-> Len(generated_files) ]))
               /\ pc' = "done" /\ exit_code' = 0
          ELSE /\ pc' = "crashed" /\ exit_code' = 1
               /\ UNCHANGED writes
    /\ UNCHANGED <<python_files, idx, walks, reads, posts, all_reviews, generated_files,
                   generated_reports, net_failed, docs_dir_exists, pureVars, envVars>>

(***************************************************************************)
(* generate_calculation_examples.py : json.dump / json.load                *)
(***************************************************************************)

DigitChars == <<"0", "1", "2", "3", "4", "5", "6", "7", "8", "9">>
DigitVal(c) == CHOOSE d \in 0 .. 9 : DigitChars[d + 1] = c

\* the decimal digits of a natural number, and back
RECURSIVE IntToStr(_)
IntToStr(n) ==
    IF n < 10 THEN << DigitChars[n + 1] >>
    ELSE Append(IntToStr(n \div 10), DigitChars[(n % 10) + 1])
RECURSIVE StrToInt(_)
StrToInt(ds) ==
    IF ds = <<>> THEN 0
    ELSE StrToInt(SubSeq(ds, 1, Len(ds) - 1)) * 10 + DigitVal(ds[Len(ds)])

RECURSIVE StripZeros(_)
StripZeros(ds) ==
    IF Len(ds) > 1 /\ ds[Len(ds)] = "0" THEN StripZeros(SubSeq(ds, 1, Len(ds) - 1))
    ELSE ds

\* float.__repr__ as json.dump writes it, of a float given in thousandths:
\* the integer part, a point, the decimals without trailing zeros (at least one)
FloatRepr(vE3) ==
    LET fp == vE3 % 1000
    IN  IntToStr(vE3 \div 1000) \o <<".">>
        \o StripZeros(<< DigitChars[(fp \div 100) + 1],
                         DigitChars[((fp \div 10) % 10) + 1],
                         DigitChars[(fp % 10) + 1] >>)

PointAt(tok) == CHOOSE i \in DOMAIN tok : tok[i] = "."
Pow10(n) == IF n = 0 THEN 1 ELSE IF n = 1 THEN 10 ELSE IF n = 2 THEN 100 ELSE 1000

\* json.load of one token: a quoted string, a number with a point (back to
\* thousandths), or an integer
JsonValue(tok) ==
    IF tok[1] = "quote" THEN tok[2]
    ELSE IF \E i \in DOMAIN tok : tok[i] = "."
    THEN LET p    == PointAt(tok)
             frac == SubSeq(tok, p + 1, Len(tok))
         IN  StrToInt(SubSeq(tok, 1, p - 1)) * 1000 + StrToInt(frac) * Pow10(3 - Len(frac))
    ELSE StrToInt(tok)

JsonStr(x) == <<"quote", x, "quote">>

\* json.dump({"building_params": ..., "results": ..., "generated_at": ...})
JsonDump(bp, res) ==
    [ building_params |->
        [ name             |-> JsonStr(bp.name),
          building_type    |-> JsonStr(bp.building_type),
          height           |-> IntToStr(bp.height),
          width            |-> IntToStr(bp.width),
          depth            |-> IntToStr(bp.depth),
          terrain_category |-> JsonStr(bp.terrain_category),
          location         |-> JsonStr(bp.location),
          code_standard    |-> JsonStr(bp.code_standard) ],
      results |->
        [ basic_wind_pressure |-> FloatRepr(res.basic_wind_pressure),
          height_factor       |-> FloatRepr(res.height_factor),
          shape_factor        |-> FloatRepr(res.shape_factor),
          wind_pressure       |-> FloatRepr(res.wind_pressure),
          building_area       |-> IntToStr(res.building_area),
          total_wind_load     |-> FloatRepr(res.total_wind_load),
          units               |-> [ pressure |-> JsonStr(res.units.pressure),
                                    load     |-> JsonStr(res.units.load),
                                    area     |-> JsonStr(res.units.area) ] ],
      generated_at |-> <<"1", ".", "0">> ]

\* json.load of such a document: building_params and results
JsonLoad(doc) ==
    [ building_params |->
        [ k \in DOMAIN doc.building_params |-> JsonValue(doc.building_params[k]) ],
      results |->
        [ basic_wind_pressure |-> JsonValue(doc.results.basic_wind_pressure),
          height_factor       |-> JsonValue(doc.results.height_factor),
          shape_factor        |-> JsonValue(doc.results.shape_factor),
          wind_pressure       |-> JsonValue(doc.results.wind_pressure),
          building_area       |-> JsonValue(doc.results.building_area),
          total_wind_load     |-> JsonValue(doc.results.total_wind_load),
          units               |-> [ k \in DOMAIN doc.results.units |->
                                      JsonValue(doc.results.units[k]) ] ] ]

(***************************************************************************)
(* generate_calculation_examples.py : save_report, main                    *)
(***************************************************************************)

\* building_name.replace(" ", "_").replace("/", "_")
SafeName(name) ==
    [ i \in DOMAIN name |-> IF name[i] = " " \/ name[i] = "/" THEN "_" ELSE name[i] ]
ReportFile(name) == Path(Dir(<<"reports">>), SafeName(name) \o <<"_report", ".md">>)
DataFile(name)   == Path(Dir(<<"reports">>), SafeName(name) \o <<"_data", ".json">>)

\* generate_text_report: the template filled with the record and the results
generate_text_report(bp, res) == [building_params |-> bp, results |-> res]

\* the files save_report writes, in order
ReportWrites(bp, res) ==
    << Written(ReportFile(bp.name), Item("example", Path(<<>>, bp.name)),
               generate_text_report(bp, res)),
       Written(DataFile(bp.name), Item("example", Path(<<>>, bp.name)),
               JsonDump(bp, res)) >>

\* lines 167-173
ExCreate ==
    /\ script = "examples" /\ pc = "start"
    /\ pc' = "loop" /\ idx' = 0
    /\ UNCHANGED <<exit_code, python_files, walks, loopVars, pureVars, envVars>>

\* lines 174-205, one pass of the loop body, inside try/except Exception:
\* k of save_report's two writes succeed (0 also stands for a failing mkdir)
ExExample ==
    /\ script = "examples" /\ pc = "loop" /\ idx < Len(Examples)
    /\ LET example == Examples[idx + 1]
           res     == simulate_calculation_results(example)
           W       == ReportWrites(example, res)
       IN  \E k \in 0 .. Len(W) :
              /\ writes' = writes \o SubSeq(W, 1, k)
              /\ generated_reports' =
                    IF k = Len(W)
                    THEN Append(generated_reports,
                                [ example       |-> example.name,
                                  report_file   |-> ReportFile(example.name),
                                  wind_pressure |-> res.wind_pressure,
                                  total_load    |-> res.total_wind_load ])
                    ELSE generated_reports
    /\ idx' = idx + 1
    /\ UNCHANGED <<pc, exit_code, python_files, walks, all_reviews, generated_files,
                   net_failed, reads, posts, docs_dir_exists, pureVars, envVars>>

\* lines 207-244: with reports, SUMMARY.md then sys.exit(0); without, mkdir and the
\* placeholder README.md then sys.exit(0); neither write is inside a try
ExSummary ==
    /\ script = "examples" /\ pc = "loop" /\ idx = Len(Examples)
    /\ \E io \in {"ok", "write_fails"} :
          IF io = "ok"
          THEN /\ writes' = Append(writes,
                    IF generated_reports # <<>>
                    THEN Written(Path(Dir(<<"reports">>), <<"SUMMARY", ".md">>),
                                 Item("summary", NoPath),
                                 [ links |-> [ i \in DOMAIN generated_reports |->
                                                 generated_reports[i].report_file.name ] ])
                    ELSE Written(Path(Dir(<<"reports">>), <<"README", ".md">>),
                                 Item("placeholder", NoPath), [links |-> <<>>]))
               /\ pc' = "exit" /\ exit_code' = 0
          ELSE /\ pc' = "crashed" /\ exit_code' = 1
               /\ UNCHANGED writes
    /\ UNCHANGED <<python_files, idx, walks, reads, posts, all_reviews, generated_files,
                   generated_reports, net_failed, docs_dir_exists, pureVars, envVars>>

(***************************************************************************)
(* The three scripts                                                       *)
(***************************************************************************)

InitRun ==
    /\ script \in {"review", "docs", "examples"}
    /\ pc = "start"
    /\ exit_code = -1
    /\ token \in (IF script = "examples" THEN {"unset"} ELSE {"unset", "empty", "set"})
    /\ github_actions \in (IF script = "review" THEN BOOLEAN ELSE {FALSE})
    /\ tree \in (IF script = "examples" THEN { <<>> } ELSE Trees)
    /\ docs_dir_exists \in (IF script = "docs" THEN BOOLEAN ELSE {FALSE})
    /\ python_files = <<>> /\ idx = 0
    /\ all_reviews = <<>> /\ generated_files = <<>> /\ generated_reports = <<>>
    /\ writes = <<>> /\ net_failed = {}
    /\ walks = 0 /\ reads = 0 /\ posts = 0
    /\ CalcIdle /\ QueryIdle /\ ClsIdle /\ DocTypeIdle

Init == InitRun

Next ==
    \/ RevStart \/ RevDiscover \/ ReviewFile \/ RevSummarise
    \/ DocStart \/ DocDiscover \/ DocFile \/ DocOverview \/ DocIndex \/ DocReport
    \/ ExCreate \/ ExExample \/ ExSummary

Spec == Init /\ [][Next]_vars

\* the review script alone, over the files that the loop of main treats
\* differently: one with valid syntax and one with a syntax error below src, and
\* one outside src that the parser cannot take.  The script is sequential: a
\* main that can take its next step takes it, and a POST that is never answered
\* is a step that leaves it blocked
InitReview ==
    /\ InitRun
    /\ script = "review"
    /\ \A f \in Range(tree) :
          PathOf(f) \in { Path(Dir(<<"src", "a">>), <<"util", ".py">>),
                          Path(Dir(<<"src", "b">>), <<"util", ".py">>),
                          Path(<<>>, <<"setup", ".py">>) }
NextReview == RevStart \/ RevDiscover \/ ReviewFile \/ RevSummarise
SpecLive == InitReview /\ [][NextReview]_vars /\ WF_vars(NextReview)

(***************************************************************************)
(* Properties of the scripts                                               *)
(***************************************************************************)

\* C1 as stated: in the review run a file whose inference call failed at the
\* network/HTTP level has no record in all_reviews and gets no review artifact.
C1_AsStated ==
    script = "review" =>
        /\ \A i \in DOMAIN all_reviews : all_reviews[i].file \notin net_failed
        /\ \A i \in DOMAIN writes :
              writes[i].item.kind = "file" => writes[i].item.file \notin net_failed

\* C2 as stated: no run of any of the three scripts ends with an uncaught
\* exception once the credential check is passed.
C2_AsStated == pc # "crashed"

\* C4 as stated: two writes of one run that go to the same path are writes of
\* the same item.
C4_AsStated ==
    \A i, j \in DOMAIN writes :
        writes[i].path = writes[j].path => writes[i].item = writes[j].item

\* C5: in the review and documentation scripts a missing (unset or empty) token,
\* or a client that cannot be built, ends the process with status 1 straight
\* from the credential check: no directory has been walked, no file read, no
\* POST made and no file written.
C5_ExitBeforeWork ==
    script \in {"review", "docs"} =>
        /\ ~Truthy(token) => pc \in {"start", "exit"}
        /\ pc = "exit" =>
              /\ exit_code = 1
              /\ walks = 0 /\ reads = 0 /\ posts = 0
              /\ writes = <<>> /\ python_files = <<>>

C5_Witness ==
    /\ script = "docs" /\ token = "empty"
    /\ pc = "exit" /\ exit_code = 1

\* C6 as stated: however the example script ends, its exit status is 0.
C6_AsStated ==
    (script = "examples" /\ pc \in {"exit", "crashed"}) => exit_code = 0

\* C10 as stated: after a run that processed examples, the reports directory
\* holds summary_data.json with the data of the run.
C10_AsStated ==
    (script = "examples" /\ pc = "exit" /\ generated_reports # <<>>) =>
        \E i \in DOMAIN writes :
            writes[i].path = Path(Dir(<<"reports">>), <<"summary_data", ".json">>)

\* what does hold of the files that are written: for every example listed in
\* generated_reports the run wrote that example's markdown report and its JSON
\* data file, and the data file, loaded again, gives the building parameters and
\* the result fields the report was rendered from.
C10_RoundTrip ==
    script = "examples" =>
        \A r \in DOMAIN generated_reports :
            \E i, j \in DOMAIN writes :
                /\ writes[i].item = Item("example", Path(<<>>, generated_reports[r].example))
                /\ writes[j].item = writes[i].item
                /\ writes[i].path = generated_reports[r].report_file
                /\ writes[j].path.name[Len(writes[j].path.name)] = ".json"
                /\ JsonLoad(writes[j].content).building_params
                       = writes[i].content.building_params
                /\ JsonLoad(writes[j].content).results = writes[i].content.results
                /\ writes[i].content.results.wind_pressure
                       = generated_reports[r].wind_pressure

C10_Witness ==
    /\ script = "examples" /\ pc = "exit"
    /\ Len(generated_reports) = 3

\* every link target of an index page, relative to docs: the fixed link to the
\* overview and the links of the module section
LinkTargets(index) ==
    (IF index.overview_link THEN << Path(<<>>, <<"OVERVIEW", ".md">>) >> ELSE <<>>)
        \o index.links
LinksTo(index, docs_file) ==
    Cardinality({ k \in DOMAIN LinkTargets(index) :
                    LinkTargets(index)[k] = Path(Tail(docs_file.dir), docs_file.name) })

\* C12 as stated: when the documentation run has written its index, the index
\* holds exactly one link to the docs file of every source file that was
\* documented, and it links the overview exactly when the overview was written.
C12_AsStated ==
    \A n \in DOMAIN writes :
        writes[n].item.kind = "index" =>
            /\ \A i \in 1 .. (n - 1) :
                   writes[i].item.kind = "file" =>
                       LinksTo(writes[n].content, writes[i].path) = 1
            /\ writes[n].content.overview_link
                   <=> \E i \in 1 .. (n - 1) : writes[i].item.kind = "overview"

\* the file of the working directory that a path names
FileAt(path) == CHOOSE f \in Range(tree) : PathOf(f) = path
InvalidSyntax(path) == FileAt(path).content.parse = "SyntaxError"

\* what the reviewed files with valid syntax add up to, for functions or classes
RECURSIVE ValidTotal(_, _)
ValidTotal(reviews, key) ==
    IF reviews = <<>> THEN 0
    ELSE (IF InvalidSyntax(Head(reviews).file) THEN 0
          ELSE IF key = "functions" THEN FileAt(Head(reviews).file).content.functions
          ELSE FileAt(Head(reviews).file).content.classes)
         + ValidTotal(Tail(reviews), key)

\* C14: in the review run a file with invalid syntax gets an analysis record
\* with the keys file, error and line_count only, the line count being that of
\* its text; it is submitted for review like any other file (one POST, and its
\* record joins all_reviews unless the review itself fails); it adds nothing to
\* total_functions and total_classes; its artifact shows its line count; and
\* the run never ends inside the loop, so a run that ends has taken every file.
C14_ParseFailureRecoverable ==
    /\ [](script = "review" =>
            /\ \A i \in DOMAIN all_reviews :
                   InvalidSyntax(all_reviews[i].file) =>
                       /\ all_reviews[i].analysis.fields = {"file", "error", "line_count"}
                       /\ all_reviews[i].analysis.file = all_reviews[i].file
                       /\ all_reviews[i].analysis.line_count
                              = FileAt(all_reviews[i].file).content.lines
            /\ \A n \in DOMAIN writes :
                   /\ (writes[n].item.kind = "file" /\ InvalidSyntax(writes[n].item.file))
                         => writes[n].content.line_count
                               = FileAt(writes[n].item.file).content.lines
                   /\ writes[n].item.kind = "data" =>
                         /\ writes[n].content.data.total_functions
                                = ValidTotal(all_reviews, "functions")
                         /\ writes[n].content.data.total_classes
                                = ValidTotal(all_reviews, "classes")
            /\ pc \in {"crashed", "done"} => idx = Len(python_files))
    /\ [][ (script = "review" /\ pc = "loop" /\ idx' = idx + 1
              /\ python_files[idx + 1].content.parse = "SyntaxError")
            => \/ /\ posts' = posts + 1
                  /\ pc' = "loop"
                  /\ \/ all_reviews' = all_reviews
                     \/ /\ Len(all_reviews') = Len(all_reviews) + 1
                        /\ all_reviews'[Len(all_reviews')].file
                               = PathOf(python_files[idx + 1])
               \/ /\ posts' = posts /\ reads' = reads + 1
                  /\ pc' = "loop" /\ all_reviews' = all_reviews ]_vars

C14_Witness ==
    /\ script = "review" /\ pc = "done"
    /\ Len(all_reviews) = 2
    /\ InvalidSyntax(all_reviews[1].file)
    /\ ~InvalidSyntax(all_reviews[2].file)
    /\ \E n \in DOMAIN writes :
          /\ writes[n].item = Item("file", all_reviews[1].file)
          /\ writes[n].content.line_count = 3

\* the place of a path in main's python_files
PlaceOf(path) == CHOOSE k \in DOMAIN python_files : PathOf(python_files[k]) = path

\* C15 as stated, its last part: a review run with the token present ends.
C15_AsStated ==
    (script = "review" /\ Truthy(token)) ~> pc \in {"done", "crashed"}

\* C15 amended: in a review run with the token present the loop takes every
\* discovered file once, in discovery order: each pass opens one file, makes at
\* most one POST and, when that POST returns or none was made, moves on to the
\* next file whatever happened; the records of all_reviews follow the discovery
\* order without repeats; after the loop at most one more POST (the summary) is
\* made, so a run over n files makes at most n + 1 POSTs; and the run either
\* ends or stands blocked for ever in a POST that is never answered.
C15_NoRetryNoEarlyStop ==
    /\ [](script = "review" /\ Truthy(token) =>
            /\ reads = idx + (IF pc = "blocked" /\ idx < Len(python_files) THEN 1 ELSE 0)
            /\ idx <= Len(python_files)
            /\ posts <= idx + (IF pc \in {"done", "crashed", "blocked"} THEN 1 ELSE 0)
            /\ \A i, j \in DOMAIN all_reviews :
                   i < j => /\ PlaceOf(all_reviews[i].file) < PlaceOf(all_reviews[j].file)
                            /\ PlaceOf(all_reviews[j].file) <= idx
            /\ pc \in {"done", "crashed"} =>
                   /\ idx = Len(python_files)
                   /\ posts <= Len(python_files) + 1)
    /\ [][ (script = "review" /\ pc = "loop" /\ idx < Len(python_files)) =>
             /\ reads' = reads + 1
             /\ python_files' = python_files
             /\ \/ /\ idx' = idx + 1
                   /\ posts' \in {posts, posts + 1}
                   /\ pc' = "loop"
                \/ /\ idx' = idx
                   /\ posts' = posts + 1
                   /\ pc' = "blocked" ]_vars
    /\ ((script = "review" /\ Truthy(token)) ~> pc \in {"done", "crashed", "blocked"})

C15_Witness ==
    /\ script = "review" /\ pc = "done"
    /\ Len(python_files) = 2 /\ idx = 2
    /\ posts = 3
    /\ net_failed # {}
    /\ Len(all_reviews) = 2

====
